---- MODULE Spec2Model ----
(***************************************************************************)
(* A model of the FCL collision detector of DART                           *)
(* (dart/collision/fcl/FCLCollisionDetector.cpp): the reference-counted    *)
(* geometry cache, the life cycle of collision objects, and the two-phase  *)
(* detection pipeline with its contact post-processing.                    *)
(***************************************************************************)
EXTENDS Integers, Sequences, FiniteSets, TLC

(***************************************************************************)
(* Bounds of the model.                                                    *)
(***************************************************************************)
MaxClaims == 3
NumFrames == 2
MaxObjects == 2
MaxRaw == 2

VARIABLES
    mShapeMap,               \* shape -> [geom, count]        (the geometry cache)
    mFCLCollisionObjectMap,  \* native handle -> collision object
    objects,                 \* live collision objects: id -> [frame, geom, claimedShape]
    frameShape,              \* shape frame -> its current shape
    assertsEnabled,          \* TRUE: a build with assert() active (no NDEBUG)
    fault,                   \* "none" | "assert" (aborted) | "ub" (undefined) | "wrap" (count wrapped)
    ret,                     \* geometry returned by the last claimFCLCollisionGeometry
    lastOp,                  \* history: the last operation and what it did
    claimed,                 \* history: shape -> number of claims issued
    reclaimed,               \* history: shape -> number of matched reclaims issued
    result,                  \* Result::contacts of the caller's Result
    pc,                      \* "idle" | "enum": inside the broad phase's enumeration
    call,                    \* the detect call under way or last made: groups and option
    collData,                \* FCLCollisionCallbackData: request, raw result, done
    offered,                 \* the candidate pairs the broad phase has offered in this call
    detRet,                  \* the boolean the last detect call returned
    callTrace,               \* history: what the detect call did before enumerating
    produced,                \* history: the contacts appended during this call
    lastCb,                  \* history: the last callback invocation and what it did
    entryDirty,              \* history: the result held contacts when detect was called
    prevDone,                \* history: the detect call before this one ended with done set
    rawTotal,                \* history: the contacts the narrow phase reported in this call
    post,                    \* one postProcess call on its own: its arguments and stage
    aspect                   \* an embedded state or properties aspect and its composites

cacheVars == <<mShapeMap, assertsEnabled, fault, ret, lastOp, claimed, reclaimed>>
objVars == <<mFCLCollisionObjectMap, objects, frameShape>>
detVars == <<result, pc, call, collData, offered, detRet, callTrace, produced, lastCb,
            entryDirty, prevDone, rawTotal>>
vars == <<cacheVars, objVars, detVars, post, aspect>>

(***************************************************************************)
(* Shapes.  A shape is known by its identity (the ConstShapePtr used as    *)
(* the key of mShapeMap); its type and parameters are attributes.  Shapes  *)
(* 1 and 2 are two distinct instances with equal type and parameters.      *)
(***************************************************************************)
ShapeTypeTable == <<"BOX", "BOX", "UNSUPPORTED">>

Shapes == 1..Len(ShapeTypeTable)
Frames == 1..NumFrames
ObjectIds == 1..MaxObjects

getShapeType(shape) == ShapeTypeTable[shape]

SupportedShapeTypes == {"BOX", "ELLIPSOID", "CYLINDER", "PLANE", "MESH", "SOFT_MESH"}

NullGeom == [id |-> 0, type |-> "null"]

\* Addresses of the geometries that are alive: held by the cache or by an object.
LiveGeomIds ==
    {mShapeMap[s].geom.id : s \in DOMAIN mShapeMap}
        \cup {objects[o].geom.id : o \in DOMAIN objects}

\* The address a new geometry gets: any free one; the least, as they are alike.
FreshGeomId == CHOOSE n \in 1..(Cardinality(LiveGeomIds) + 1) :
                  /\ n \notin LiveGeomIds
                  /\ \A m \in 1..(n - 1) : m \in LiveGeomIds

\* A builder that falls back to a box for a shape type it does not know.
createFCLCollisionGeometry_DefaultBox(shape) ==
    [id |-> FreshGeomId,
     type |-> IF getShapeType(shape) \in SupportedShapeTypes
              THEN getShapeType(shape) ELSE "BOX"]

\* The shape-to-geometry builder: a new geometry for a supported shape type,
\* the null pointer (and a logged error) for any other.
createFCLCollisionGeometry(shape) ==
    IF getShapeType(shape) \in SupportedShapeTypes
    THEN [id |-> FreshGeomId, type |-> getShapeType(shape)]
    ELSE NullGeom

(***************************************************************************)
(* The geometry cache.                                                     *)
(***************************************************************************)
RemoveKey(map, key) == [k \in (DOMAIN map) \ {key} |-> map[k]]

\* assert(mShapeMap.end() != search) failing: the build with assertions
\* aborts; the build without goes on to dereference end(), which is undefined.
AssertionFault == IF assertsEnabled THEN "assert" ELSE "ub"

\* assert(0u != count) failing in a reclaim: the build with assertions aborts;
\* in the build without, count-- wraps around to the largest size_t.
ZeroCountFault == IF assertsEnabled THEN "assert" ELSE "wrap"

\* A cache keyed by the value of a shape instead of its identity.
claimFCLCollisionGeometry_ByValue(shape, map) ==
    LET same == {t \in DOMAIN map : getShapeType(t) = getShapeType(shape)}
    IN  IF same # {}
        THEN LET key == CHOOSE t \in same : \A u \in same : t <= u
             IN  [map |-> [map EXCEPT ![key].count = @ + 1],
                  fault |-> "none", ret |-> map[key].geom, built |-> FALSE]
        ELSE LET fclCollGeom == createFCLCollisionGeometry(shape)
             IN  [map |-> map @@ (shape :> [geom |-> fclCollGeom, count |-> 1]),
                  fault |-> "none", ret |-> fclCollGeom, built |-> TRUE]

\* A claim that caches only the geometries the builder could make: a null
\* geometry is returned without an entry, and built anew by the next claim.
claimFCLCollisionGeometry_NullNotCached(shape, map) ==
    IF shape \in DOMAIN map
    THEN [map |-> [map EXCEPT ![shape].count = @ + 1],
          fault |-> "none", ret |-> map[shape].geom, built |-> FALSE]
    ELSE LET fclCollGeom == createFCLCollisionGeometry(shape)
         IN  [map |-> IF fclCollGeom = NullGeom
                      THEN map
                      ELSE map @@ (shape :> [geom |-> fclCollGeom, count |-> 1]),
              fault |-> "none", ret |-> fclCollGeom, built |-> TRUE]

\* claimFCLCollisionGeometry(shape): the cache, the fault and the returned
\* geometry after the call; built says whether the builder was invoked.
claimFCLCollisionGeometry(shape, map) ==
    IF shape \in DOMAIN map
    THEN IF map[shape].count = 0 /\ assertsEnabled
         THEN [map |-> map, fault |-> "assert", ret |-> map[shape].geom, built |-> FALSE]
         ELSE [map |-> [map EXCEPT ![shape].count = @ + 1],
               fault |-> "none", ret |-> map[shape].geom, built |-> FALSE]
    ELSE LET fclCollGeom == createFCLCollisionGeometry(shape)
         IN  [map |-> map @@ (shape :> [geom |-> fclCollGeom, count |-> 1]),
              fault |-> "none", ret |-> fclCollGeom, built |-> TRUE]

\* A reclaim that erases the entry whatever its count.
reclaimFCLCollisionGeometry_EraseAlways(shape, map) ==
    IF shape \notin DOMAIN map
    THEN [map |-> map, fault |-> AssertionFault]
    ELSE [map |-> RemoveKey(map, shape), fault |-> "none"]

\* A reclaim that never erases the entry.
reclaimFCLCollisionGeometry_NoErase(shape, map) ==
    IF shape \notin DOMAIN map
    THEN [map |-> map, fault |-> AssertionFault]
    ELSE IF map[shape].count = 0
    THEN [map |-> map, fault |-> ZeroCountFault]
    ELSE [map |-> [map EXCEPT ![shape].count = @ - 1], fault |-> "none"]

\* A reclaim that returns silently when the shape has no entry.
reclaimFCLCollisionGeometry_SilentMiss(shape, map) ==
    IF shape \notin DOMAIN map
    THEN [map |-> map, fault |-> "none"]
    ELSE IF map[shape].count - 1 = 0
    THEN [map |-> RemoveKey(map, shape), fault |-> "none"]
    ELSE [map |-> [map EXCEPT ![shape].count = @ - 1], fault |-> "none"]

\* reclaimFCLCollisionGeometry(shape): the cache and the fault after the call.
reclaimFCLCollisionGeometry(shape, map) ==
    IF shape \notin DOMAIN map
    THEN [map |-> map, fault |-> AssertionFault]
    ELSE IF map[shape].count = 0
    THEN [map |-> map, fault |-> ZeroCountFault]
    ELSE IF map[shape].count - 1 = 0
    THEN [map |-> RemoveKey(map, shape), fault |-> "none"]
    ELSE [map |-> [map EXCEPT ![shape].count = @ - 1], fault |-> "none"]

NoOp == [op |-> "none", shape |-> 0, built |-> FALSE]

NullGroup == 0
NullFilter == [present |-> FALSE, accepts |-> {}]
NoCall == [form |-> 0, group1 |-> NullGroup, group2 |-> NullGroup, option |-> "none"]
NoCollData == [mFclRequest |-> "none", mFclResult |-> << >>, mOption |-> "none",
               done |-> FALSE]
NoReturn == [returned |-> FALSE, value |-> FALSE]
NoCb == [o1 |-> 0, o2 |-> 0, doneBefore |-> FALSE, asked |-> FALSE,
         narrow |-> FALSE, ret |-> FALSE]
NoPost == [stage |-> "none", fclResult |-> << >>, o1 |-> 0, o2 |-> 0, before |-> << >>]
NoAspect == [kind |-> "none"]

InitCommon ==
    /\ mShapeMap = << >>
    /\ mFCLCollisionObjectMap = << >>
    /\ objects = << >>
    /\ assertsEnabled \in BOOLEAN
    /\ fault = "none"
    /\ ret = NullGeom
    /\ lastOp = NoOp
    /\ claimed = [s \in Shapes |-> 0]
    /\ reclaimed = [s \in Shapes |-> 0]
    /\ result = << >>
    /\ pc = "idle"
    /\ call = NoCall
    /\ collData = NoCollData
    /\ offered = {}
    /\ detRet = NoReturn
    /\ callTrace = << >>
    /\ produced = << >>
    /\ lastCb = NoCb
    /\ entryDirty = FALSE
    /\ prevDone = FALSE
    /\ rawTotal = 0
    /\ post = NoPost
    /\ aspect = NoAspect

(***************************************************************************)
(* SpecCache: the cache driven directly by claims and reclaims, in any     *)
(* interleaving, matched or not.                                           *)
(***************************************************************************)
Claim(shape) ==
    /\ fault = "none"
    /\ claimed[shape] < MaxClaims
    /\ LET r == claimFCLCollisionGeometry(shape, mShapeMap)
       IN  /\ mShapeMap' = r.map
           /\ fault' = r.fault
           /\ ret' = r.ret
           /\ lastOp' = [op |-> "claim", shape |-> shape, built |-> r.built]
    /\ claimed' = [claimed EXCEPT ![shape] = @ + 1]
    /\ UNCHANGED <<assertsEnabled, reclaimed, objVars, detVars, post, aspect>>

Reclaim(shape) ==
    /\ fault = "none"
    /\ LET r == reclaimFCLCollisionGeometry(shape, mShapeMap)
       IN  /\ mShapeMap' = r.map
           /\ fault' = r.fault
    /\ lastOp' = [op |-> "reclaim", shape |-> shape, built |-> FALSE]
    /\ reclaimed' = IF reclaimed[shape] < claimed[shape]
                    THEN [reclaimed EXCEPT ![shape] = @ + 1]
                    ELSE reclaimed
    /\ UNCHANGED <<assertsEnabled, ret, claimed, objVars, detVars, post, aspect>>

NextCache ==
    \/ \E shape \in Shapes : Claim(shape)
    \/ \E shape \in Shapes : Reclaim(shape)

InitCache ==
    /\ InitCommon
    /\ frameShape = [f \in Frames |-> 1]

SpecCache == InitCache /\ [][NextCache]_vars

(***************************************************************************)
(* SpecObjects: the life cycle of collision objects.  An object is built   *)
(* on a shape frame; the frame's shape can be replaced while the object    *)
(* lives.                                                                  *)
(***************************************************************************)
NullObject == 0

\* The native fcl::CollisionObject a collision object owns.
getFCLCollisionObject(collObj) == 100 + collObj

\* CollisionObject::getShape(): the shape its frame has now.
getShape(collObj) == frameShape[objects[collObj].frame]

\* The address a new collision object gets: the least free one.
FreshObject == CHOOSE o \in ObjectIds \ DOMAIN objects :
                  \A p \in ObjectIds \ DOMAIN objects : o <= p

\* createCollisionObject(shapeFrame), new collision object collObj.
createCollisionObject(shapeFrame, collObj) ==
    LET r == claimFCLCollisionGeometry(frameShape[shapeFrame], mShapeMap)
    IN  [map |-> r.map,
         fault |-> r.fault,
         ret |-> r.ret,
         built |-> r.built,
         object |-> [frame |-> shapeFrame, geom |-> r.ret,
                     claimedShape |-> frameShape[shapeFrame]],
         objMap |-> IF r.fault = "none"
                    THEN mFCLCollisionObjectMap @@ (getFCLCollisionObject(collObj) :> collObj)
                    ELSE mFCLCollisionObjectMap]

\* findCollisionObject(fclCollObj)
findCollisionObject(fclCollObj) ==
    IF fclCollObj \in DOMAIN mFCLCollisionObjectMap
    THEN mFCLCollisionObjectMap[fclCollObj]
    ELSE NullObject

\* notifyDestroyingCollisionObject(collObj)
notifyDestroyingCollisionObject(collObj) ==
    IF collObj = NullObject
    THEN [map |-> mShapeMap, fault |-> "none", objMap |-> mFCLCollisionObjectMap]
    ELSE LET r == reclaimFCLCollisionGeometry(getShape(collObj), mShapeMap)
         IN  [map |-> r.map,
              fault |-> r.fault,
              objMap |-> IF r.fault = "none"
                         THEN RemoveKey(mFCLCollisionObjectMap,
                                        getFCLCollisionObject(collObj))
                         ELSE mFCLCollisionObjectMap]

CreateCollisionObject(shapeFrame) ==
    /\ fault = "none"
    /\ ObjectIds \ DOMAIN objects # {}
    /\ LET collObj == FreshObject
           r == createCollisionObject(shapeFrame, collObj)
       IN  /\ mShapeMap' = r.map
           /\ fault' = r.fault
           /\ ret' = r.ret
           /\ mFCLCollisionObjectMap' = r.objMap
           /\ objects' = IF r.fault = "none"
                         THEN objects @@ (collObj :> r.object)
                         ELSE objects
           /\ lastOp' = [op |-> "create", shape |-> frameShape[shapeFrame],
                         built |-> r.built]
    /\ UNCHANGED <<assertsEnabled, claimed, reclaimed, frameShape, detVars, post, aspect>>

\* ~CollisionObject(): the object tells its detector that it is going, and
\* is gone.
DestroyCollisionObject(collObj) ==
    /\ fault = "none"
    /\ collObj \in DOMAIN objects
    /\ LET r == notifyDestroyingCollisionObject(collObj)
       IN  /\ mShapeMap' = r.map
           /\ fault' = r.fault
           /\ mFCLCollisionObjectMap' = r.objMap
           /\ objects' = IF r.fault = "none"
                         THEN RemoveKey(objects, collObj)
                         ELSE objects
    /\ lastOp' = [op |-> "destroy", shape |-> getShape(collObj), built |-> FALSE]
    /\ UNCHANGED <<assertsEnabled, ret, claimed, reclaimed, frameShape, detVars, post, aspect>>

\* notifyDestroyingCollisionObject(nullptr)
NotifyDestroyingNull ==
    /\ fault = "none"
    /\ LET r == notifyDestroyingCollisionObject(NullObject)
       IN  /\ mShapeMap' = r.map
           /\ fault' = r.fault
           /\ mFCLCollisionObjectMap' = r.objMap
    /\ lastOp' = [op |-> "notifyNull", shape |-> 0, built |-> FALSE]
    /\ UNCHANGED <<assertsEnabled, ret, claimed, reclaimed, frameShape, objects, detVars, post, aspect>>

\* ShapeFrame::setShape(shape)
SetShape(shapeFrame, shape) ==
    /\ fault = "none"
    /\ frameShape[shapeFrame] # shape
    /\ frameShape' = [frameShape EXCEPT ![shapeFrame] = shape]
    /\ lastOp' = [op |-> "setShape", shape |-> shape, built |-> FALSE]
    /\ UNCHANGED <<mShapeMap, assertsEnabled, fault, ret, claimed, reclaimed,
                   mFCLCollisionObjectMap, objects, detVars, post, aspect>>

NextObjects ==
    \/ \E shapeFrame \in Frames : CreateCollisionObject(shapeFrame)
    \/ \E collObj \in ObjectIds : DestroyCollisionObject(collObj)
    \/ NotifyDestroyingNull
    \/ \E shapeFrame \in Frames, shape \in Shapes : SetShape(shapeFrame, shape)

InitObjects ==
    /\ InitCommon
    /\ frameShape \in [Frames -> Shapes]

SpecObjects == InitObjects /\ [][NextObjects]_vars

(***************************************************************************)
(* SpecCreateDestroy: collision objects are created and destroyed, and     *)
(* every frame keeps the shape it has.                                     *)
(***************************************************************************)
NextCreateDestroy ==
    \/ \E shapeFrame \in Frames : CreateCollisionObject(shapeFrame)
    \/ \E collObj \in ObjectIds : DestroyCollisionObject(collObj)
    \/ NotifyDestroyingNull

SpecCreateDestroy == InitObjects /\ [][NextCreateDestroy]_vars

\* ~FCLCollisionDetector(): the two assertions of the destructor.
DestructorAssertionsHold ==
    /\ mShapeMap = << >>
    /\ mFCLCollisionObjectMap = << >>

(***************************************************************************)
(* Contact positions.  A coordinate is M * ZERO + m * ZERO^2 metres for    *)
(* integers M and m, ZERO = 0.000001 being the constant of postProcess: M  *)
(* tells points apart that are a micrometre or more from each other, m     *)
(* those that differ by the order of ZERO2 = ZERO * ZERO.  Comparisons of  *)
(* lengths with the thresholds are exact for such coordinates.             *)
(***************************************************************************)
DuplicateFactor == 3

VSub(a, b) == <<a[1] - b[1], a[2] - b[2], a[3] - b[3]>>
VAdd(a, b) == <<a[1] + b[1], a[2] + b[2], a[3] + b[3]>>
VNeg(a) == <<0 - a[1], 0 - a[2], 0 - a[3]>>
Dot(a, b) == a[1] * b[1] + a[2] * b[2] + a[3] * b[3]
Cross(a, b) == <<a[2] * b[3] - a[3] * b[2],
                 a[3] * b[1] - a[1] * b[3],
                 a[1] * b[2] - a[2] * b[1]>>

Pos(M, m) == [M |-> M, m |-> m]

\* The sign of c[1] + c[2] * ZERO + c[3] * ZERO^2 + ... for coefficients far
\* below 1 / ZERO: the sign of the first coefficient that is not 0.
RECURSIVE LeadingSign(_)
LeadingSign(c) ==
    IF c = << >> THEN 0
    ELSE IF Head(c) < 0 THEN -1
    ELSE IF Head(c) > 0 THEN 1
    ELSE LeadingSign(Tail(c))

\* (pos1 - pos2).length() < 3 * ZERO2
IsRepeated(pos1, pos2) ==
    LET D == VSub(pos1.M, pos2.M)
        d == VSub(pos1.m, pos2.m)
    IN  LeadingSign(<<Dot(D, D), 2 * Dot(D, d),
                      Dot(d, d) - DuplicateFactor * DuplicateFactor>>) < 0

\* ((pos1 - pos2).cross(pos1 - pos3)).length() < ZERO2
IsColinear(pos1, pos2, pos3) ==
    LET A == VSub(pos1.M, pos2.M)
        a == VSub(pos1.m, pos2.m)
        B == VSub(pos1.M, pos3.M)
        b == VSub(pos1.m, pos3.m)
        X == Cross(A, B)
        Y == VAdd(Cross(A, b), Cross(a, B))
        Z == Cross(a, b)
    IN  LeadingSign(<<Dot(X, X) - 1, 2 * Dot(X, Y), Dot(Y, Y) + 2 * Dot(X, Z),
                      2 * Dot(Y, Z), Dot(Z, Z)>>) < 0

(***************************************************************************)
(* The contact post-processor.                                             *)
(***************************************************************************)
\* The collision object a native handle's user data names: its owner.
UserDataCollisionObject(fclCollObj) == fclCollObj - 100

\* A conversion that takes the two collision objects the other way round.
convertContact_Swapped(fclContact, o1, o2) ==
    [point |-> fclContact.pos,
     normal |-> VNeg(fclContact.normal),
     penetrationDepth |-> fclContact.penetration_depth,
     triID1 |-> fclContact.b1,
     triID2 |-> fclContact.b2,
     collisionObject1 |-> UserDataCollisionObject(o2),
     collisionObject2 |-> UserDataCollisionObject(o1)]

\* convertContact(fclContact, o1, o2)
convertContact(fclContact, o1, o2) ==
    [point |-> fclContact.pos,
     normal |-> VNeg(fclContact.normal),
     penetrationDepth |-> fclContact.penetration_depth,
     triID1 |-> fclContact.b1,
     triID2 |-> fclContact.b2,
     collisionObject1 |-> UserDataCollisionObject(o1),
     collisionObject2 |-> UserDataCollisionObject(o2)]

\* A first loop that marks both contacts of a repeated pair.
MarkRepeated_MarksBoth(contacts) ==
    LET numContacts == Len(contacts)
    IN  [i \in 1..numContacts |->
            \E j \in (1..numContacts) \ {i} :
                IsRepeated(contacts[i].pos, contacts[j].pos)]

\* A first loop that compares a contact with the next one only.
MarkRepeated_NextOnly(contacts) ==
    LET numContacts == Len(contacts)
    IN  [i \in 1..numContacts |->
            /\ i < numContacts
            /\ IsRepeated(contacts[i].pos, contacts[i + 1].pos)]

\* A first loop whose inner loop stops one contact short of the last.
MarkRepeated_SkipsLast(contacts) ==
    LET numContacts == Len(contacts)
    IN  [i \in 1..numContacts |->
            /\ i < numContacts
            /\ \E j \in (i + 1)..(numContacts - 1) :
                  IsRepeated(contacts[i].pos, contacts[j].pos)]

\* A first loop that marks the later contact of a repeated pair.
MarkRepeated_MarksLater(contacts) ==
    LET numContacts == Len(contacts)
    IN  [j \in 1..numContacts |->
            \E i \in 1..(j - 1) : IsRepeated(contacts[i].pos, contacts[j].pos)]

\* The first loop of postProcess: "mark all the repeated points".
MarkRepeated(contacts) ==
    LET numContacts == Len(contacts)
    IN  [i \in 1..numContacts |->
            /\ i < numContacts
            /\ \E j \in (i + 1)..numContacts :
                  IsRepeated(contacts[i].pos, contacts[j].pos)]

\* A second loop that does not skip the contacts already marked.
RECURSIVE MarkColinear_IgnoresMarks(_, _, _)
MarkColinear_IgnoresMarks(contacts, markForDeletion, i) ==
    LET numContacts == Len(contacts)
    IN  IF i > numContacts THEN markForDeletion
        ELSE MarkColinear_IgnoresMarks(
                 contacts,
                 [markForDeletion EXCEPT ![i] =
                     \/ @
                     \/ \E j \in (i + 1)..numContacts :
                            \E k \in (j + 1)..numContacts :
                                IsColinear(contacts[i].pos, contacts[j].pos,
                                           contacts[k].pos)],
                 i + 1)

\* The second loop of postProcess, from index i on: "remove all the co-linear
\* contact points".
RECURSIVE MarkColinear(_, _, _)
MarkColinear(contacts, markForDeletion, i) ==
    LET numContacts == Len(contacts)
    IN  IF i > numContacts THEN markForDeletion
        ELSE IF markForDeletion[i]
        THEN MarkColinear(contacts, markForDeletion, i + 1)
        ELSE MarkColinear(
                 contacts,
                 [markForDeletion EXCEPT ![i] =
                     \E j \in (i + 1)..numContacts :
                         /\ ~markForDeletion[j]
                         /\ \E k \in (j + 1)..numContacts :
                               /\ ~markForDeletion[k]
                               /\ IsColinear(contacts[i].pos, contacts[j].pos,
                                             contacts[k].pos)],
                 i + 1)

\* Marks without the second loop.
MarkForDeletion_RepeatedOnly(contacts) == MarkRepeated(contacts)

\* The marks postProcess ends with for the raw contacts of one pair.
MarkForDeletion(contacts) == MarkColinear(contacts, MarkRepeated(contacts), 1)

\* The third loop of postProcess: the contacts converted, from index i on.
RECURSIVE Emit(_, _, _, _, _)
Emit(contacts, markForDeletion, o1, o2, i) ==
    IF i > Len(contacts) THEN << >>
    ELSE IF markForDeletion[i]
    THEN Emit(contacts, markForDeletion, o1, o2, i + 1)
    ELSE <<convertContact(contacts[i], o1, o2)>>
             \o Emit(contacts, markForDeletion, o1, o2, i + 1)

\* A postProcess that puts the contacts of the pair in front of the result.
postProcess_Prepends(fclResult, o1, o2, contacts) ==
    IF Len(fclResult) = 0 THEN contacts
    ELSE Emit(fclResult, MarkForDeletion(fclResult), o1, o2, 1) \o contacts

\* postProcess(fclResult, o1, o2, result): the result's contacts afterwards.
postProcess(fclResult, o1, o2, contacts) ==
    IF Len(fclResult) = 0 THEN contacts
    ELSE contacts \o Emit(fclResult, MarkForDeletion(fclResult), o1, o2, 1)

(***************************************************************************)
(* The detection pipeline.                                                 *)
(***************************************************************************)
\* FCLCollisionDetector::getTypeStatic()
getTypeStatic == "FCL"

\* The collision groups there are: two of this detector, one of another.
GroupTable ==
    <<[type |-> "FCL", members |-> {1, 2, 3}],
      [type |-> "FCL", members |-> {3}],
      [type |-> "Bullet", members |-> {}]>>

Groups == 1..Len(GroupTable)

\* group->getCollisionDetector()->getType()
getType(group) == GroupTable[group].type

\* The pairwise filters: a filter is known by the pairs it wants collided.
Filters == {[present |-> TRUE, accepts |-> {}],
            [present |-> TRUE, accepts |-> {{1, 3}}]}

needCollision(filter, collObj1, collObj2) == {collObj1, collObj2} \in filter.accepts

Options ==
    [maxNumContacts : {1, 2},
     enableContact : BOOLEAN,
     collisionFilter : {NullFilter} \cup Filters]

\* convertOption(option, request); enable_cost keeps the default of
\* fcl::CollisionRequest, false.
convertOption(option) ==
    [num_max_contacts |-> option.maxNumContacts,
     enable_contact |-> option.enableContact,
     enable_cost |-> FALSE]

\* FCLCollisionCallbackData(collisionDetector, option, result)
FCLCollisionCallbackData(option) ==
    [mFclRequest |-> convertOption(option),
     mFclResult |-> << >>,
     mOption |-> option,
     done |-> FALSE]

\* The narrow phase, fcl::collide: any contacts, as far as this code knows.
DetectPoints ==
    {Pos(<<0, 0, 0>>, <<0, 0, 0>>), Pos(<<0, 0, 0>>, <<1, 0, 0>>)}

FclContact(pos) ==
    [pos |-> pos, normal |-> <<0, 0, 1>>, penetration_depth |-> 1,
     b1 |-> 0, b2 |-> 0]

NarrowOutcomes ==
    UNION {[1..n -> {FclContact(pos) : pos \in DetectPoints}] : n \in 0..MaxRaw}

\* fclResult.isCollision()
isCollision(fclResult) == Len(fclResult) > 0

\* A callback that skips the pairs the filter wants and collides the others.
collisionCallback_FilterInverted(o1, o2, data, contacts, narrow) ==
    LET filter == data.mOption.collisionFilter
        fclRequest == data.mFclRequest
    IN  IF data.done
        THEN [data |-> data, contacts |-> contacts, ret |-> TRUE,
              asked |-> FALSE, narrow |-> FALSE]
        ELSE IF /\ filter # NullFilter
                /\ needCollision(filter,
                                 findCollisionObject(o1), findCollisionObject(o2))
        THEN [data |-> data, contacts |-> contacts, ret |-> data.done,
              asked |-> TRUE, narrow |-> FALSE]
        ELSE LET done == IF /\ ~fclRequest.enable_cost
                            /\ isCollision(narrow)
                            /\ Len(narrow) >= fclRequest.num_max_contacts
                         THEN TRUE
                         ELSE data.done
             IN  [data |-> [data EXCEPT !.mFclResult = narrow, !.done = done],
                  contacts |-> postProcess(narrow, o1, o2, contacts),
                  ret |-> done,
                  asked |-> filter # NullFilter,
                  narrow |-> TRUE]

\* A callback that sets done only when contact computation is enabled.
collisionCallback_ContactGated(o1, o2, data, contacts, narrow) ==
    LET filter == data.mOption.collisionFilter
        fclRequest == data.mFclRequest
    IN  IF data.done
        THEN [data |-> data, contacts |-> contacts, ret |-> TRUE,
              asked |-> FALSE, narrow |-> FALSE]
        ELSE IF /\ filter # NullFilter
                /\ ~needCollision(filter,
                                  findCollisionObject(o1), findCollisionObject(o2))
        THEN [data |-> data, contacts |-> contacts, ret |-> data.done,
              asked |-> TRUE, narrow |-> FALSE]
        ELSE LET done == IF /\ fclRequest.enable_contact
                            /\ isCollision(narrow)
                            /\ Len(narrow) >= fclRequest.num_max_contacts
                         THEN TRUE
                         ELSE data.done
             IN  [data |-> [data EXCEPT !.mFclResult = narrow, !.done = done],
                  contacts |-> postProcess(narrow, o1, o2, contacts),
                  ret |-> done,
                  asked |-> filter # NullFilter,
                  narrow |-> TRUE]

\* A callback that does not look at done on entry.
collisionCallback_NoDoneGuard(o1, o2, data, contacts, narrow) ==
    LET filter == data.mOption.collisionFilter
        fclRequest == data.mFclRequest
    IN  IF /\ filter # NullFilter
                /\ ~needCollision(filter,
                                  findCollisionObject(o1), findCollisionObject(o2))
        THEN [data |-> data, contacts |-> contacts, ret |-> data.done,
              asked |-> TRUE, narrow |-> FALSE]
        ELSE LET done == IF /\ ~fclRequest.enable_cost
                            /\ isCollision(narrow)
                            /\ Len(narrow) >= fclRequest.num_max_contacts
                         THEN TRUE
                         ELSE data.done
             IN  [data |-> [data EXCEPT !.mFclResult = narrow, !.done = done],
                  contacts |-> postProcess(narrow, o1, o2, contacts),
                  ret |-> done,
                  asked |-> filter # NullFilter,
                  narrow |-> TRUE]

\* A callback that returns as soon as it has set done.
collisionCallback_StopBeforePostProcess(o1, o2, data, contacts, narrow) ==
    LET filter == data.mOption.collisionFilter
        fclRequest == data.mFclRequest
    IN  IF data.done
        THEN [data |-> data, contacts |-> contacts, ret |-> TRUE,
              asked |-> FALSE, narrow |-> FALSE]
        ELSE IF /\ filter # NullFilter
                /\ ~needCollision(filter,
                                  findCollisionObject(o1), findCollisionObject(o2))
        THEN [data |-> data, contacts |-> contacts, ret |-> data.done,
              asked |-> TRUE, narrow |-> FALSE]
        ELSE LET done == IF /\ ~fclRequest.enable_cost
                            /\ isCollision(narrow)
                            /\ Len(narrow) >= fclRequest.num_max_contacts
                         THEN TRUE
                         ELSE data.done
             IN  [data |-> [data EXCEPT !.mFclResult = narrow, !.done = done],
                  contacts |-> IF done THEN contacts
                               ELSE postProcess(narrow, o1, o2, contacts),
                  ret |-> done,
                  asked |-> filter # NullFilter,
                  narrow |-> TRUE]

\* A callback that asks the filter only after the narrow phase.
collisionCallback_FilterAfterNarrow(o1, o2, data, contacts, narrow) ==
    LET filter == data.mOption.collisionFilter
        fclRequest == data.mFclRequest
    IN  IF data.done
        THEN [data |-> data, contacts |-> contacts, ret |-> TRUE,
              asked |-> FALSE, narrow |-> FALSE]
        ELSE IF /\ filter # NullFilter
                /\ ~needCollision(filter,
                                  findCollisionObject(o1), findCollisionObject(o2))
        THEN [data |-> [data EXCEPT !.mFclResult = narrow], contacts |-> contacts,
              ret |-> data.done, asked |-> TRUE, narrow |-> TRUE]
        ELSE LET done == IF /\ ~fclRequest.enable_cost
                            /\ isCollision(narrow)
                            /\ Len(narrow) >= fclRequest.num_max_contacts
                         THEN TRUE
                         ELSE data.done
             IN  [data |-> [data EXCEPT !.mFclResult = narrow, !.done = done],
                  contacts |-> postProcess(narrow, o1, o2, contacts),
                  ret |-> done,
                  asked |-> filter # NullFilter,
                  narrow |-> TRUE]

\* A callback that does not clear the raw result before the narrow phase.
collisionCallback_NoClear(o1, o2, data, contacts, narrow) ==
    LET filter == data.mOption.collisionFilter
        fclRequest == data.mFclRequest
        raw == data.mFclResult \o narrow
    IN  IF data.done
        THEN [data |-> data, contacts |-> contacts, ret |-> TRUE,
              asked |-> FALSE, narrow |-> FALSE]
        ELSE IF /\ filter # NullFilter
                /\ ~needCollision(filter,
                                  findCollisionObject(o1), findCollisionObject(o2))
        THEN [data |-> data, contacts |-> contacts, ret |-> data.done,
              asked |-> TRUE, narrow |-> FALSE]
        ELSE LET done == IF /\ ~fclRequest.enable_cost
                            /\ isCollision(raw)
                            /\ Len(raw) >= fclRequest.num_max_contacts
                         THEN TRUE
                         ELSE data.done
             IN  [data |-> [data EXCEPT !.mFclResult = raw, !.done = done],
                  contacts |-> postProcess(raw, o1, o2, contacts),
                  ret |-> done,
                  asked |-> filter # NullFilter,
                  narrow |-> TRUE]

\* collisionCallback(o1, o2, cdata), the narrow phase answering narrow: the
\* callback data, the result's contacts and the value returned.
collisionCallback(o1, o2, data, contacts, narrow) ==
    LET filter == data.mOption.collisionFilter
        fclRequest == data.mFclRequest
    IN  IF data.done
        THEN [data |-> data, contacts |-> contacts, ret |-> TRUE,
              asked |-> FALSE, narrow |-> FALSE]
        ELSE IF /\ filter # NullFilter
                /\ ~needCollision(filter,
                                  findCollisionObject(o1), findCollisionObject(o2))
        THEN [data |-> data, contacts |-> contacts, ret |-> data.done,
              asked |-> TRUE, narrow |-> FALSE]
        ELSE LET done == IF /\ ~fclRequest.enable_cost
                            /\ isCollision(narrow)
                            /\ Len(narrow) >= fclRequest.num_max_contacts
                         THEN TRUE
                         ELSE data.done
             IN  [data |-> [data EXCEPT !.mFclResult = narrow, !.done = done],
                  contacts |-> postProcess(narrow, o1, o2, contacts),
                  ret |-> done,
                  asked |-> filter # NullFilter,
                  narrow |-> TRUE]

Event(what, group) == [ev |-> what, group |-> group]

\* detect(group, option, result) up to the broad phase's enumeration: whether
\* the enumeration is entered, and what was done, in order.
detect1(group) ==
    IF group = NullGroup
    THEN [enter |-> FALSE, trace |-> <<Event("clear", NullGroup)>>]
    ELSE IF getType(group) # getTypeStatic
    THEN [enter |-> FALSE, trace |-> <<Event("clear", NullGroup)>>]
    ELSE [enter |-> TRUE,
          trace |-> <<Event("clear", NullGroup), Event("update", group),
                      Event("collide", group)>>]

\* A two-group detect that clears the result only after the checks.
detect2_ClearAfterChecks(group1, group2) ==
    IF group1 = NullGroup \/ group2 = NullGroup
    THEN [enter |-> FALSE, trace |-> << >>]
    ELSE IF getType(group1) # getTypeStatic
    THEN [enter |-> FALSE, trace |-> << >>]
    ELSE IF getType(group2) # getTypeStatic
    THEN [enter |-> FALSE, trace |-> << >>]
    ELSE [enter |-> TRUE,
          trace |-> <<Event("clear", NullGroup), Event("update", group1),
                      Event("update", group2), Event("collide", group1)>>]

\* A two-group detect that does not check the type of group2's detector.
detect2_Group2Unchecked(group1, group2) ==
    IF group1 = NullGroup \/ group2 = NullGroup
    THEN [enter |-> FALSE, trace |-> <<Event("clear", NullGroup)>>]
    ELSE IF getType(group1) # getTypeStatic
    THEN [enter |-> FALSE, trace |-> <<Event("clear", NullGroup)>>]
    ELSE [enter |-> TRUE,
          trace |-> <<Event("clear", NullGroup), Event("update", group1),
                      Event("update", group2), Event("collide", group1)>>]

\* A two-group detect that updates group2 only after the enumeration.
detect2_UpdateAfterCollide(group1, group2) ==
    IF group1 = NullGroup \/ group2 = NullGroup
    THEN [enter |-> FALSE, trace |-> <<Event("clear", NullGroup)>>]
    ELSE IF getType(group1) # getTypeStatic
    THEN [enter |-> FALSE, trace |-> <<Event("clear", NullGroup)>>]
    ELSE IF getType(group2) # getTypeStatic
    THEN [enter |-> FALSE, trace |-> <<Event("clear", NullGroup)>>]
    ELSE [enter |-> TRUE,
          trace |-> <<Event("clear", NullGroup), Event("update", group1),
                      Event("collide", group1), Event("update", group2)>>]

\* detect(group1, group2, option, result) up to the enumeration.
detect2(group1, group2) ==
    IF group1 = NullGroup \/ group2 = NullGroup
    THEN [enter |-> FALSE, trace |-> <<Event("clear", NullGroup)>>]
    ELSE IF getType(group1) # getTypeStatic
    THEN [enter |-> FALSE, trace |-> <<Event("clear", NullGroup)>>]
    ELSE IF getType(group2) # getTypeStatic
    THEN [enter |-> FALSE, trace |-> <<Event("clear", NullGroup)>>]
    ELSE [enter |-> TRUE,
          trace |-> <<Event("clear", NullGroup), Event("update", group1),
                      Event("update", group2), Event("collide", group1)>>]

\* The contacts of the result after a trace of detect.
RECURSIVE ContactsAfter(_, _)
ContactsAfter(trace, contacts) ==
    IF trace = << >> THEN contacts
    ELSE ContactsAfter(Tail(trace),
                       IF Head(trace).ev = "clear" THEN << >> ELSE contacts)

\* A detect that returns whether the result is empty.
detectReturn_Inverted(contacts) == contacts = << >>

\* A detect that returns true whenever it got as far as the enumeration.
detectReturn_Success(contacts) == TRUE

\* return !result.contacts.empty();
detectReturn(contacts) == contacts # << >>

\* The pairs the broad phase may offer: two members of the group, or one
\* member of each group.
CandidatePairs ==
    IF call.form = 1
    THEN {<<a, b>> \in GroupTable[call.group1].members
                        \X GroupTable[call.group1].members : a # b}
    ELSE {<<a, b>> \in GroupTable[call.group1].members
                        \X GroupTable[call.group2].members : a # b}

\* A detect whose update of the group claims the geometry of a shape anew.
DetectBegin_UpdateClaims(form, group1, group2, option) ==
    /\ fault = "none"
    /\ pc = "idle"
    /\ LET d == IF form = 1 THEN detect1(group1) ELSE detect2(group1, group2)
       IN  /\ callTrace' = d.trace
           /\ result' = ContactsAfter(d.trace, result)
           /\ pc' = IF d.enter THEN "enum" ELSE "idle"
           /\ collData' = IF d.enter THEN FCLCollisionCallbackData(option)
                          ELSE NoCollData
           /\ detRet' = IF d.enter THEN NoReturn
                        ELSE [returned |-> TRUE, value |-> FALSE]
           /\ mShapeMap' = IF d.enter
                           THEN claimFCLCollisionGeometry(getShape(1), mShapeMap).map
                           ELSE mShapeMap
    /\ call' = [form |-> form, group1 |-> group1, group2 |-> group2,
                option |-> option]
    /\ offered' = {}
    /\ produced' = << >>
    /\ lastCb' = NoCb
    /\ entryDirty' = (result # << >>)
    /\ prevDone' = lastCb.ret
    /\ rawTotal' = 0
    /\ UNCHANGED <<assertsEnabled, fault, ret, lastOp, claimed, reclaimed, objVars,
                   post, aspect>>

\* A detect whose done flag outlives the call: it starts as the call before
\* left it.
DetectBegin_DoneKept(form, group1, group2, option) ==
    /\ fault = "none"
    /\ pc = "idle"
    /\ LET d == IF form = 1 THEN detect1(group1) ELSE detect2(group1, group2)
       IN  /\ callTrace' = d.trace
           /\ result' = ContactsAfter(d.trace, result)
           /\ pc' = IF d.enter THEN "enum" ELSE "idle"
           /\ collData' = IF d.enter
                          THEN [FCLCollisionCallbackData(option)
                                   EXCEPT !.done = lastCb.ret]
                          ELSE NoCollData
           /\ detRet' = IF d.enter THEN NoReturn
                        ELSE [returned |-> TRUE, value |-> FALSE]
    /\ call' = [form |-> form, group1 |-> group1, group2 |-> group2,
                option |-> option]
    /\ offered' = {}
    /\ produced' = << >>
    /\ lastCb' = NoCb
    /\ entryDirty' = (result # << >>)
    /\ prevDone' = lastCb.ret
    /\ rawTotal' = 0
    /\ UNCHANGED <<cacheVars, objVars, post, aspect>>

DetectBegin(form, group1, group2, option) ==
    /\ fault = "none"
    /\ pc = "idle"
    /\ LET d == IF form = 1 THEN detect1(group1) ELSE detect2(group1, group2)
       IN  /\ callTrace' = d.trace
           /\ result' = ContactsAfter(d.trace, result)
           /\ pc' = IF d.enter THEN "enum" ELSE "idle"
           /\ collData' = IF d.enter THEN FCLCollisionCallbackData(option)
                          ELSE NoCollData
           /\ detRet' = IF d.enter THEN NoReturn
                        ELSE [returned |-> TRUE, value |-> FALSE]
    /\ call' = [form |-> form, group1 |-> group1, group2 |-> group2,
                option |-> option]
    /\ offered' = {}
    /\ produced' = << >>
    /\ lastCb' = NoCb
    /\ entryDirty' = (result # << >>)
    /\ prevDone' = lastCb.ret
    /\ rawTotal' = 0
    /\ UNCHANGED <<cacheVars, objVars, post, aspect>>

Detect1Begin(group, option) == DetectBegin(1, group, NullGroup, option)

Detect2Begin(group1, group2, option) == DetectBegin(2, group1, group2, option)

\* The broad phase offers a candidate pair: one invocation of the callback.
Callback(a, b, narrow) ==
    /\ fault = "none"
    /\ pc = "enum"
    /\ <<a, b>> \in CandidatePairs
    /\ {a, b} \notin offered
    /\ LET o1 == getFCLCollisionObject(a)
           o2 == getFCLCollisionObject(b)
           r == collisionCallback(o1, o2, collData, result, narrow)
       IN  /\ collData' = r.data
           /\ result' = r.contacts
           /\ produced' = produced \o SubSeq(r.contacts, Len(result) + 1,
                                             Len(r.contacts))
           /\ lastCb' = [o1 |-> o1, o2 |-> o2, doneBefore |-> collData.done,
                         asked |-> r.asked, narrow |-> r.narrow, ret |-> r.ret]
           /\ rawTotal' = IF r.narrow THEN rawTotal + Len(narrow) ELSE rawTotal
    /\ offered' = offered \cup {{a, b}}
    /\ UNCHANGED <<cacheVars, objVars, pc, call, detRet, callTrace, entryDirty,
                   prevDone, post, aspect>>

\* The enumeration ends, and detect returns.
DetectEnd ==
    /\ fault = "none"
    /\ pc = "enum"
    /\ detRet' = [returned |-> TRUE, value |-> detectReturn(result)]
    /\ pc' = "idle"
    /\ collData' = NoCollData
    /\ UNCHANGED <<cacheVars, objVars, result, call, offered, callTrace,
                   produced, lastCb, entryDirty, prevDone, rawTotal, post, aspect>>

NextDetect ==
    \/ \E group \in Groups \cup {NullGroup}, option \in Options :
          Detect1Begin(group, option)
    \/ \E group1, group2 \in Groups \cup {NullGroup}, option \in Options :
          Detect2Begin(group1, group2, option)
    \/ \E a, b \in 1..3, narrow \in NarrowOutcomes : Callback(a, b, narrow)
    \/ DetectEnd

\* Three collision objects have been created, on the frames 1, 2 and 2.
InitDetect ==
    /\ frameShape = [f \in Frames |-> IF f = 1 THEN 1 ELSE 2]
    /\ objects = [o \in 1..3 |->
                    [frame |-> IF o = 1 THEN 1 ELSE 2,
                     geom |-> [id |-> IF o = 1 THEN 1 ELSE 2, type |-> "BOX"],
                     claimedShape |-> IF o = 1 THEN 1 ELSE 2]]
    /\ mShapeMap = [s \in 1..2 |->
                      [geom |-> [id |-> s, type |-> "BOX"], count |-> s]]
    /\ mFCLCollisionObjectMap = [h \in 101..103 |-> h - 100]
    /\ assertsEnabled = TRUE
    /\ fault = "none"
    /\ ret = [id |-> 2, type |-> "BOX"]
    /\ lastOp = [op |-> "create", shape |-> 2, built |-> FALSE]
    /\ claimed = [s \in Shapes |-> 0]
    /\ reclaimed = [s \in Shapes |-> 0]
    /\ result = << >>
    /\ pc = "idle"
    /\ call = NoCall
    /\ collData = NoCollData
    /\ offered = {}
    /\ detRet = NoReturn
    /\ callTrace = << >>
    /\ produced = << >>
    /\ lastCb = NoCb
    /\ entryDirty = FALSE
    /\ prevDone = FALSE
    /\ rawTotal = 0
    /\ post = NoPost
    /\ aspect = NoAspect

SpecDetect == InitDetect /\ [][NextDetect]_vars

(***************************************************************************)
(* SpecPost: postProcess on its own, applied to any raw contacts of one    *)
(* pair and to a result that may hold the contacts of an earlier pair.     *)
(* The points: three on a line a micro-unit apart (the first and the last  *)
(* further apart than the second is from either), two further points of    *)
(* that line, and one point off it.                                        *)
(***************************************************************************)
MaxPostRaw == 4

PostPoints ==
    {Pos(<<0, 0, 0>>, <<0, 0, 0>>), Pos(<<0, 0, 0>>, <<2, 0, 0>>),
     Pos(<<0, 0, 0>>, <<4, 0, 0>>), Pos(<<1, 0, 0>>, <<0, 0, 0>>),
     Pos(<<2, 0, 0>>, <<0, 0, 0>>), Pos(<<0, 1, 0>>, <<0, 0, 0>>)}

\* The raw contacts of a pair at the given points; b1 tells them apart.
RawContacts(points) ==
    [i \in 1..Len(points) |-> [FclContact(points[i]) EXCEPT !.b1 = i]]

PostInputs ==
    UNION {{RawContacts(points) : points \in [1..n -> PostPoints]} : n \in 0..MaxPostRaw}

\* What the result may hold already: nothing, or a contact of the pair (1, 3).
PostBefore ==
    {<< >>,
     <<convertContact(FclContact(Pos(<<0, 0, 0>>, <<0, 0, 0>>)),
                      getFCLCollisionObject(1), getFCLCollisionObject(3))>>}

\* postProcess(fclResult, o1, o2, result) is called for the pair (a, b).
PostProcess(a, b) ==
    /\ post.stage = "in"
    /\ a # b
    /\ LET o1 == getFCLCollisionObject(a)
           o2 == getFCLCollisionObject(b)
       IN  /\ result' = postProcess(post.fclResult, o1, o2, result)
           /\ post' = [post EXCEPT !.stage = "out", !.o1 = o1, !.o2 = o2,
                                   !.before = result]
    /\ UNCHANGED <<cacheVars, objVars, pc, call, collData, offered, detRet,
                   callTrace, produced, lastCb, entryDirty, prevDone, rawTotal, aspect>>

NextPost == \E a, b \in 1..2 : PostProcess(a, b)

InitPost ==
    /\ frameShape = [f \in Frames |-> IF f = 1 THEN 1 ELSE 2]
    /\ objects = [o \in 1..3 |->
                    [frame |-> IF o = 1 THEN 1 ELSE 2,
                     geom |-> [id |-> IF o = 1 THEN 1 ELSE 2, type |-> "BOX"],
                     claimedShape |-> IF o = 1 THEN 1 ELSE 2]]
    /\ mShapeMap = [s \in 1..2 |->
                      [geom |-> [id |-> s, type |-> "BOX"], count |-> s]]
    /\ mFCLCollisionObjectMap = [h \in 101..103 |-> h - 100]
    /\ assertsEnabled = TRUE
    /\ fault = "none"
    /\ ret = [id |-> 2, type |-> "BOX"]
    /\ lastOp = [op |-> "create", shape |-> 2, built |-> FALSE]
    /\ claimed = [s \in Shapes |-> 0]
    /\ reclaimed = [s \in Shapes |-> 0]
    /\ result \in PostBefore
    /\ pc = "enum"
    /\ call = NoCall
    /\ collData = NoCollData
    /\ offered = {}
    /\ detRet = NoReturn
    /\ callTrace = << >>
    /\ produced = << >>
    /\ lastCb = NoCb
    /\ entryDirty = FALSE
    /\ prevDone = FALSE
    /\ rawTotal = 0
    /\ \E fclResult \in PostInputs :
          post = [stage |-> "in", fclResult |-> fclResult, o1 |-> 0, o2 |-> 0,
                  before |-> << >>]
    /\ aspect = NoAspect

SpecPost == InitPost /\ [][NextPost]_vars

\* The raw indices of the contacts a postProcess call appended.
PostRetained ==
    {result[n].triID1 : n \in (Len(post.before) + 1)..Len(result)}

(***************************************************************************)
(* C1: refcount symmetry.  A shape has an entry exactly while it has been  *)
(* claimed more often than reclaimed, and the entry's count is the number  *)
(* of claims not yet reclaimed: n claims followed by n reclaims leave no   *)
(* entry, and the entry is there after every proper prefix of the reclaims.*)
(***************************************************************************)
C1_RefcountSymmetry ==
    \A s \in Shapes :
        /\ (s \in DOMAIN mShapeMap) <=> (claimed[s] > reclaimed[s])
        /\ s \in DOMAIN mShapeMap => mShapeMap[s].count = claimed[s] - reclaimed[s]

C1_Witness ==
    /\ fault = "none"
    /\ mShapeMap = << >>
    /\ lastOp.op = "reclaim"
    /\ claimed[lastOp.shape] >= 2
    /\ reclaimed[lastOp.shape] = claimed[lastOp.shape]

(***************************************************************************)
(* C2: every entry of the cache has a count of at least 1, and an entry is *)
(* removed in exactly the reclaim step that takes its count from 1 to 0.   *)
(***************************************************************************)
C2_EntryLifetime ==
    [][ /\ \A s \in DOMAIN mShapeMap' : mShapeMap'[s].count >= 1
        /\ \A s \in Shapes :
              (s \in DOMAIN mShapeMap /\ s \notin DOMAIN mShapeMap')
                <=> /\ lastOp'.op = "reclaim"
                    /\ lastOp'.shape = s
                    /\ s \in DOMAIN mShapeMap
                    /\ mShapeMap[s].count = 1 ]_vars

C2_Witness ==
    /\ fault = "none"
    /\ lastOp.op = "reclaim"
    /\ lastOp.shape \notin DOMAIN mShapeMap
    /\ \E s \in DOMAIN mShapeMap : mShapeMap[s].count >= 2

(***************************************************************************)
(* C3: a claim of a cached shape returns the stored geometry, adds 1 to    *)
(* that shape's count only and does not call the builder; a claim of an    *)
(* uncached shape calls the builder once and inserts an entry with count   *)
(* 1.  The key is the shape's identity: shapes with equal parameters have  *)
(* entries of their own, and a claim or reclaim of one shape leaves the    *)
(* entries of all others as they were.                                     *)
(***************************************************************************)
C3_ClaimContract ==
    [][ LET s == lastOp'.shape
            OthersUnchanged ==
                \A t \in Shapes \ {s} :
                    /\ (t \in DOMAIN mShapeMap) <=> (t \in DOMAIN mShapeMap')
                    /\ t \in DOMAIN mShapeMap => mShapeMap'[t] = mShapeMap[t]
        IN  /\ lastOp'.op = "claim" /\ s \in DOMAIN mShapeMap =>
                /\ ret' = mShapeMap[s].geom
                /\ ~lastOp'.built
                /\ s \in DOMAIN mShapeMap'
                /\ mShapeMap'[s] = [geom |-> mShapeMap[s].geom,
                                    count |-> mShapeMap[s].count + 1]
                /\ OthersUnchanged
            /\ lastOp'.op = "claim" /\ s \notin DOMAIN mShapeMap =>
                /\ lastOp'.built
                /\ s \in DOMAIN mShapeMap'
                /\ mShapeMap'[s] = [geom |-> ret', count |-> 1]
                /\ \A t \in DOMAIN mShapeMap :
                      ret' # NullGeom => mShapeMap[t].geom.id # ret'.id
                /\ OthersUnchanged
            /\ lastOp'.op = "reclaim" => OthersUnchanged ]_vars

C3_Witness ==
    /\ fault = "none"
    /\ lastOp = [op |-> "claim", shape |-> 2, built |-> FALSE]
    /\ 1 \in DOMAIN mShapeMap
    /\ getShapeType(1) = getShapeType(2)
    /\ mShapeMap[1].geom.id # mShapeMap[2].geom.id
    /\ mShapeMap[1].count = 1
    /\ mShapeMap[2].count = 2

(***************************************************************************)
(* C4: after any sequence of object creations and destructions, with the   *)
(* shape of a frame replaced in between or not, the cache has no entry for *)
(* a shape that no live collision object refers to (neither as the shape   *)
(* its geometry was claimed for nor as the shape of its frame).            *)
(***************************************************************************)
C4_NoDanglingEntry ==
    fault = "none" =>
        \A s \in DOMAIN mShapeMap :
            \E o \in DOMAIN objects :
                objects[o].claimedShape = s \/ getShape(o) = s

(***************************************************************************)
(* C5: in a build with assertions, a reclaim of a shape that has no entry  *)
(* fails the assertion instead of returning silently; and no fault arises  *)
(* in a step other than a reclaim that no unmatched claim of the same      *)
(* shape precedes.                                                         *)
(***************************************************************************)
C5_ReclaimWithoutEntry ==
    [][ /\ ( /\ lastOp'.op = "reclaim"
             /\ lastOp'.shape \notin DOMAIN mShapeMap
             /\ assertsEnabled ) => fault' = "assert"
        /\ fault' # "none" =>
              /\ lastOp'.op = "reclaim"
              /\ claimed[lastOp'.shape] = reclaimed[lastOp'.shape] ]_vars

C5_Witness ==
    /\ fault = "assert"
    /\ lastOp.op = "reclaim"
    /\ lastOp.shape \notin DOMAIN mShapeMap
    /\ mShapeMap # << >>

(***************************************************************************)
(* C6: both detect operations clear the result at entry.  Whatever the     *)
(* result held when detect was called, during and after the call it holds  *)
(* exactly the contacts appended in this call: none of an earlier call,    *)
(* also when the call fails a precondition or finds no collision.          *)
(***************************************************************************)
C6_ResultClearedAtEntry == result = produced

C6_Witness ==
    /\ entryDirty
    /\ detRet.returned
    /\ call.form = 2
    /\ ~detRet.value
    /\ result = << >>

(***************************************************************************)
(* C7: a detect call with a group that is null or of a detector of another *)
(* type returns false with an empty result and does no partial work: no    *)
(* group is updated, the enumeration is not started and no callback runs;  *)
(* in the two-group form also when group1 is valid and only group2 is not. *)
(***************************************************************************)
InvalidGroup(group) == group = NullGroup \/ GroupTable[group].type # "FCL"

C7_PreconditionFailure ==
    ( /\ call.form # 0
      /\ \/ InvalidGroup(call.group1)
         \/ call.form = 2 /\ InvalidGroup(call.group2) )
    => /\ detRet = [returned |-> TRUE, value |-> FALSE]
       /\ result = << >>
       /\ pc = "idle"
       /\ \A i \in 1..Len(callTrace) : callTrace[i].ev = "clear"
       /\ offered = {}
       /\ lastCb = NoCb
       /\ rawTotal = 0

C7_Witness ==
    /\ call.form = 2
    /\ ~InvalidGroup(call.group1)
    /\ InvalidGroup(call.group2)
    /\ call.group2 # NullGroup
    /\ detRet.returned
    /\ entryDirty

(***************************************************************************)
(* C8: the boolean a detect call returns is true exactly if the result     *)
(* holds at least one contact when the call returns.                       *)
(***************************************************************************)
C8_ReturnIffNonEmpty ==
    detRet.returned => (detRet.value <=> Len(result) >= 1)

C8_Witness ==
    /\ detRet.returned
    /\ detRet.value
    /\ Len(result) >= 2
    /\ Cardinality(offered) >= 2

(***************************************************************************)
(* C9: with a filter whose needCollision is false for every pair, the      *)
(* narrow phase is never invoked, the result stays empty and detect        *)
(* returns false, whatever pairs the broad phase offers.                   *)
(***************************************************************************)
RejectsAll(filter) ==
    /\ filter.present
    /\ \A a, b \in 0..3 : ~needCollision(filter, a, b)

C9_FilterRejectingAll ==
    ( /\ call.form # 0
      /\ ~InvalidGroup(call.group1)
      /\ call.form = 2 => ~InvalidGroup(call.group2)
      /\ RejectsAll(call.option.collisionFilter) )
    => /\ result = << >>
       /\ ~lastCb.narrow
       /\ rawTotal = 0
       /\ detRet.returned => ~detRet.value

C9_Witness ==
    /\ call.form = 1
    /\ ~InvalidGroup(call.group1)
    /\ RejectsAll(call.option.collisionFilter)
    /\ Cardinality(offered) >= 2
    /\ lastCb.asked
    /\ detRet.returned

(***************************************************************************)
(* C10: when the narrow phase reports no contact for any pair the broad    *)
(* phase offers, the result is empty and detect returns false.             *)
(***************************************************************************)
C10_NoContactNoCollision ==
    (call.form # 0 /\ rawTotal = 0)
    => /\ result = << >>
       /\ detRet.returned => ~detRet.value

C10_Witness ==
    /\ call.form = 1
    /\ rawTotal = 0
    /\ lastCb.narrow
    /\ Cardinality(offered) >= 2
    /\ detRet.returned
    /\ ~detRet.value

(***************************************************************************)
(* C11: of two raw contacts i < j of one pair that lie within the          *)
(* duplicate epsilon of each other, postProcess retains exactly one.       *)
(* (The statement as claimed; postProcess does not satisfy it.)            *)
(***************************************************************************)
RepeatedPairs ==
    {<<i, j>> \in (1..Len(post.fclResult)) \X (1..Len(post.fclResult)) :
        /\ i < j
        /\ IsRepeated(post.fclResult[i].pos, post.fclResult[j].pos)}

C11_ExactlyOneRetained ==
    post.stage = "out" =>
        \A p \in RepeatedPairs : (p[1] \in PostRetained) # (p[2] \in PostRetained)

\* Contact j is within the duplicate epsilon of no later contact and is not
\* colinear with two later contacts.
Unrivalled(j) ==
    LET raw == post.fclResult
    IN  /\ \A k \in (j + 1)..Len(raw) : ~IsRepeated(raw[j].pos, raw[k].pos)
        /\ \A k \in (j + 1)..Len(raw) : \A l \in (k + 1)..Len(raw) :
               ~IsColinear(raw[j].pos, raw[k].pos, raw[l].pos)

(***************************************************************************)
(* C11, amended: of two raw contacts i < j of one pair that lie within the *)
(* duplicate epsilon of each other, postProcess retains at most one: i is  *)
(* never retained, and j is retained when no later contact lies within the *)
(* duplicate epsilon of j and j is not colinear with two later contacts.   *)
(***************************************************************************)
C11_AtMostOneRetained ==
    post.stage = "out" =>
        \A p \in RepeatedPairs :
            /\ p[1] \notin PostRetained
            /\ Unrivalled(p[2]) => p[2] \in PostRetained

C11_Witness ==
    /\ post.stage = "out"
    /\ Len(post.fclResult) = 3
    /\ \E p \in RepeatedPairs : p[1] = 1 /\ p[2] = 2 /\ PostRetained = {2, 3}

(***************************************************************************)
(* C12: the contacts postProcess retains of one pair contain no three      *)
(* that are colinear within epsilon.                                       *)
(***************************************************************************)
C12_NoColinearTriple ==
    post.stage = "out" =>
        \A i, j, k \in PostRetained :
            (i < j /\ j < k) =>
                ~IsColinear(post.fclResult[i].pos, post.fclResult[j].pos,
                            post.fclResult[k].pos)

C12_Witness ==
    /\ post.stage = "out"
    /\ Len(post.fclResult) = 4
    /\ PostRetained = {2, 3, 4}
    /\ IsColinear(post.fclResult[1].pos, post.fclResult[2].pos,
                  post.fclResult[3].pos)
    /\ ~IsRepeated(post.fclResult[1].pos, post.fclResult[2].pos)

(***************************************************************************)
(* C13: when the narrow phase reports at most maxNumContacts contacts for  *)
(* each pair (it never reports more than MaxRaw), the result holds at most *)
(* maxNumContacts contacts when detect returns.                            *)
(* (The statement as claimed; detect does not satisfy it.)                 *)
(***************************************************************************)
C13_TotalWithinCap ==
    (/\ call.form # 0
     /\ detRet.returned
     /\ MaxRaw <= call.option.maxNumContacts)
        => Len(result) <= call.option.maxNumContacts

(***************************************************************************)
(* C14: in a detect call with enableContact false the done flag is never   *)
(* set.  (The statement as claimed; the callback does not satisfy it.)     *)
(***************************************************************************)
C14_DoneOnlyWithContacts ==
    (pc = "enum" /\ call.form # 0 /\ ~call.option.enableContact) => ~collData.done

\* A step that is one invocation of the callback in a detect call.
CallbackStep == pc = "enum" /\ call.form # 0 /\ offered' # offered

\* The pair just collided reached the cap: a collision with at least
\* maxNumContacts raw contacts.
CapReached ==
    /\ lastCb'.narrow
    /\ isCollision(collData'.mFclResult)
    /\ Len(collData'.mFclResult) >= call.option.maxNumContacts

(***************************************************************************)
(* C14, amended: the done flag does not depend on enableContact.  In a     *)
(* detect call with enableContact false, as with true, an invocation of    *)
(* the callback leaves done set exactly when done was set before or the    *)
(* pair it collided has a collision with at least maxNumContacts contacts; *)
(* pairs offered after that are not processed.                             *)
(***************************************************************************)
C14_DoneWithoutContacts ==
    [][(CallbackStep /\ ~call.option.enableContact) =>
          /\ collData'.done = (collData.done \/ CapReached)
          /\ collData.done => ~lastCb'.narrow]_vars

C14_Witness ==
    /\ pc = "enum"
    /\ call.form # 0
    /\ ~call.option.enableContact
    /\ collData.done
    /\ lastCb.narrow

(***************************************************************************)
(* C15: claimFCLCollisionGeometry returns the null geometry for a shape    *)
(* whose type is none of box, ellipsoid, cylinder, plane, mesh and soft    *)
(* mesh, and the geometry built for it is the null geometry; for a shape   *)
(* of one of these types the geometry is not null.                         *)
(***************************************************************************)
C15_UnsupportedShapeNullGeometry ==
    (lastOp.op = "claim" /\ fault = "none") =>
        /\ (ret = NullGeom) = (getShapeType(lastOp.shape) \notin SupportedShapeTypes)
        /\ mShapeMap[lastOp.shape].geom = ret

C15_Witness ==
    /\ lastOp.op = "claim"
    /\ lastOp.built
    /\ getShapeType(lastOp.shape) \notin SupportedShapeTypes
    /\ ret = NullGeom

(***************************************************************************)
(* C16: once done is set in a detect call, every later invocation of the   *)
(* callback in that call returns true at once: the filter is not asked,    *)
(* the narrow phase is not invoked, and the result and the callback data   *)
(* (done with them) are left as they are.                                  *)
(***************************************************************************)
C16_DoneStopsCallbacks ==
    [][(CallbackStep /\ collData.done) =>
          /\ lastCb'.ret
          /\ ~lastCb'.asked
          /\ ~lastCb'.narrow
          /\ result' = result
          /\ collData' = collData]_vars

C16_Witness ==
    /\ pc = "enum"
    /\ lastCb.doneBefore
    /\ lastCb.ret
    /\ ~lastCb.narrow
    /\ result # << >>

(***************************************************************************)
(* C17: in the invocation of the callback whose narrow-phase result is a   *)
(* collision with at least maxNumContacts contacts, done is set, the       *)
(* contacts of that pair are post-processed and appended to the result     *)
(* (at least one of them), and the callback returns true; when the result  *)
(* is no collision or has fewer contacts, done stays unset and the         *)
(* callback returns false.                                                 *)
(***************************************************************************)
C17_CapReachedStillAppends ==
    [][(CallbackStep /\ lastCb'.narrow) =>
          IF CapReached
          THEN /\ collData'.done
               /\ lastCb'.ret
               /\ result' = postProcess(collData'.mFclResult, lastCb'.o1, lastCb'.o2,
                                        result)
               /\ Len(result') > Len(result)
          ELSE /\ ~collData'.done
               /\ ~lastCb'.ret]_vars

C17_Witness ==
    /\ pc = "enum"
    /\ lastCb.narrow
    /\ lastCb.ret
    /\ collData.done
    /\ Cardinality(offered) >= 2
    /\ Len(result) >= 2

(***************************************************************************)
(* C18: when a filter is configured and done is not set, the callback asks *)
(* the filter; for a pair the filter rejects the narrow phase is not       *)
(* invoked, the result and the callback data (done with them) are left as  *)
(* they are, and the callback returns false.                               *)
(***************************************************************************)
C18_FilterBeforeNarrowPhase ==
    [][(/\ CallbackStep
        /\ ~collData.done
        /\ call.option.collisionFilter # NullFilter) =>
          /\ lastCb'.asked
          /\ ~needCollision(call.option.collisionFilter,
                            UserDataCollisionObject(lastCb'.o1),
                            UserDataCollisionObject(lastCb'.o2)) =>
                /\ ~lastCb'.narrow
                /\ result' = result
                /\ collData' = collData
                /\ ~lastCb'.ret]_vars

C18_Witness ==
    /\ pc = "enum"
    /\ lastCb.asked
    /\ ~lastCb.narrow
    /\ ~lastCb.ret
    /\ result # << >>
    /\ ~collData.done

(***************************************************************************)
(* C19: in a detect call that passes its preconditions, the update of the  *)
(* group (of group1 and then of group2 in the two-group form) comes before *)
(* the broad phase's enumeration, and so before any invocation of the      *)
(* callback.                                                               *)
(***************************************************************************)
C19_UpdateBeforeEnumeration ==
    (call.form # 0 /\ (pc = "enum" \/ offered # {})) =>
        \E n \in DOMAIN callTrace :
            /\ callTrace[n].ev = "collide"
            /\ \A m \in DOMAIN callTrace : callTrace[m].ev = "collide" => m = n
            /\ \E u1 \in 1..(n - 1) :
                  /\ callTrace[u1] = Event("update", call.group1)
                  /\ call.form = 2 =>
                        \E u2 \in (u1 + 1)..(n - 1) :
                            callTrace[u2] = Event("update", call.group2)

C19_Witness ==
    /\ call.form = 2
    /\ call.group1 # call.group2
    /\ pc = "enum"
    /\ offered # {}

(***************************************************************************)
(* C20: postProcess appends to the end of the result, leaving the contacts *)
(* it held in place, exactly the unmarked raw contacts of the pair,        *)
(* converted, in increasing order of their raw index.                      *)
(***************************************************************************)
C20_AppendsInRawOrder ==
    post.stage = "out" =>
        LET raw == post.fclResult
            old == Len(post.before)
        IN  /\ Len(result) >= old
            /\ SubSeq(result, 1, old) = post.before
            /\ \A n \in (old + 1)..Len(result) :
                  /\ result[n].triID1 \in 1..Len(raw)
                  /\ result[n] = convertContact(raw[result[n].triID1], post.o1, post.o2)
                  /\ \A m \in (n + 1)..Len(result) :
                        result[n].triID1 < result[m].triID1
            /\ PostRetained = {i \in 1..Len(raw) : ~MarkForDeletion(raw)[i]}

C20_Witness ==
    /\ post.stage = "out"
    /\ post.before # << >>
    /\ Len(result) = Len(post.before) + 2
    /\ PostRetained = {2, 4}

\* The clusters of a raw set: more than two contacts, each within the
\* duplicate epsilon of the others.
Clusters ==
    LET raw == post.fclResult
    IN  {S \in SUBSET (1..Len(raw)) :
            /\ Cardinality(S) > 2
            /\ \A i, j \in S : IsRepeated(raw[i].pos, raw[j].pos)}

\* The members of a cluster the first loop of postProcess leaves unmarked.
UnmarkedByFirstLoop(S) == {i \in S : ~MarkRepeated(post.fclResult)[i]}

(***************************************************************************)
(* C21: of a cluster of more than two near-duplicate raw contacts of one   *)
(* pair, the duplicate-removal pass leaves more than one unmarked.         *)
(* (The statement as claimed; postProcess does not satisfy it.)            *)
(***************************************************************************)
C21_ClusterNotCollapsed ==
    post.stage = "out" =>
        \A S \in Clusters : Cardinality(UnmarkedByFirstLoop(S)) > 1

(***************************************************************************)
(* C21, amended: the duplicate-removal pass does collapse a cluster: it    *)
(* marks every member but the highest-indexed one, and marks that one too  *)
(* exactly when a later contact lies within the duplicate epsilon of it;   *)
(* at most one member is left unmarked.                                    *)
(***************************************************************************)
C21_ClusterCollapsed ==
    post.stage = "out" =>
        \A S \in Clusters :
            LET raw == post.fclResult
                top == CHOOSE i \in S : \A j \in S : j <= i
            IN  /\ UnmarkedByFirstLoop(S) \subseteq {top}
                /\ (top \in UnmarkedByFirstLoop(S)) =
                      (\A k \in (top + 1)..Len(raw) :
                          ~IsRepeated(raw[top].pos, raw[k].pos))

C21_Witness ==
    /\ post.stage = "out"
    /\ Len(post.fclResult) = 4
    /\ {1, 2, 3} \in Clusters
    /\ UnmarkedByFirstLoop({1, 2, 3}) = {3}
    /\ PostRetained = {3, 4}

(***************************************************************************)
(* C22: every contact an invocation of the callback appends carries, as    *)
(* collisionObject1 and collisionObject2, the collision objects owning the *)
(* first and the second native handle of the pair, in that order; the      *)
(* contacts appended before stay as they are.                              *)
(***************************************************************************)
C22_ContactObjectsInOrder ==
    [][CallbackStep =>
          /\ Len(result') >= Len(result)
          /\ SubSeq(result', 1, Len(result)) = result
          /\ \A n \in (Len(result) + 1)..Len(result') :
                /\ result'[n].collisionObject1 = findCollisionObject(lastCb'.o1)
                /\ result'[n].collisionObject2 = findCollisionObject(lastCb'.o2)]_vars

C22_Witness ==
    /\ pc = "enum"
    /\ lastCb.narrow
    /\ Len(result) = 2
    /\ result[1].collisionObject1 = 1 /\ result[1].collisionObject2 = 2
    /\ result[2].collisionObject1 = 3 /\ result[2].collisionObject2 = 1
    /\ getFCLCollisionObject(3) = lastCb.o1

(***************************************************************************)
(* C23: post-processing is per pair.  In an invocation of the callback     *)
(* that reaches the narrow phase, the raw result holds the contacts of     *)
(* that pair only, what is appended is what postProcess retains of them,   *)
(* whatever the result holds already, and at least one contact is appended *)
(* when the pair has any.                                                  *)
(***************************************************************************)
C23_PostProcessPerPair ==
    [][(CallbackStep /\ lastCb'.narrow) =>
          LET raw == collData'.mFclResult
          IN  /\ Len(raw) = rawTotal' - rawTotal
              /\ result' = result \o Emit(raw, MarkForDeletion(raw),
                                          lastCb'.o1, lastCb'.o2, 1)
              /\ raw # << >> => Len(result') > Len(result)]_vars

\* Two contacts of different pairs at one point, both kept.
C23_Witness ==
    /\ pc = "enum"
    /\ Len(result) = 2
    /\ result[1].point = result[2].point
    /\ {result[1].collisionObject1, result[1].collisionObject2}
           # {result[2].collisionObject1, result[2].collisionObject2}
    /\ Len(collData.mFclResult) = 2

(***************************************************************************)
(* C24: no step of a detect call, successful or not, changes the geometry  *)
(* cache or the map from native handles to collision objects.              *)
(***************************************************************************)
C24_DetectReadOnly ==
    [][/\ mShapeMap' = mShapeMap
       /\ mFCLCollisionObjectMap' = mFCLCollisionObjectMap]_vars

C24_Witness ==
    /\ detRet.returned
    /\ detRet.value
    /\ Cardinality(offered) = 3
    /\ DOMAIN mShapeMap = {1, 2}
    /\ mShapeMap[2].count = 2

(***************************************************************************)
(* SpecAspect: an embedded aspect (dart/common/detail/EmbeddedAspect.h),   *)
(* of the state kind or of the properties kind.  Its value lives in the    *)
(* composite while the aspect is attached to one and in a temporary store  *)
(* while it is not.  Values are numbers; 0 is the default-constructed one. *)
(***************************************************************************)
NumComposites == 2
MaxAspectValue == 2

Composites == 1..NumComposites
NullComposite == 0
AspectValues == 0..MaxAspectValue

\* State() and Properties(): the default-constructed value.
DefaultValue == 0

\* A std::unique_ptr<State>: nullptr, or the owner of a copy of a value.
NullTemporary == [present |-> FALSE, value |-> 0]
make_unique(value) == [present |-> TRUE, value |-> value]

\* The composite-tracking base class and the composite's own accessors.
getComposite(a) == a.mComposite
BaseSetComposite(a, newComposite) == [a EXCEPT !.mComposite = newComposite]
BaseLoseComposite(a, oldComposite) == [a EXCEPT !.mComposite = NullComposite]
setAspectState(embedded, composite, state) == [embedded EXCEPT ![composite] = state]
getAspectState(embedded, composite) == embedded[composite]

\* DefaultSetEmbeddedState / DefaultGetEmbeddedState
SetEmbeddedState(a, state) ==
    [a EXCEPT !.embedded = setAspectState(a.embedded, getComposite(a), state)]
GetEmbeddedState(a) == getAspectState(a.embedded, getComposite(a))

\* A setState that always writes to the temporary store.
setState_AlwaysTemporary(a, state) == [a EXCEPT !.mTemporary = make_unique(state)]

\* EmbeddedStateAspect::setState
setState(a, state) ==
    IF getComposite(a) # NullComposite
    THEN SetEmbeddedState(a, state)
    ELSE [a EXCEPT !.mTemporary = make_unique(state)]

\* EmbeddedStateAspect::getState: the aspect afterwards and the value returned.
getState(a) ==
    IF getComposite(a) # NullComposite
    THEN [aspect |-> a, ret |-> GetEmbeddedState(a)]
    ELSE LET b == IF ~a.mTemporary.present
                  THEN [a EXCEPT !.mTemporary = make_unique(DefaultValue)]
                  ELSE a
         IN  [aspect |-> b, ret |-> b.mTemporary.value]

\* A setComposite that keeps the temporary store.
setComposite_KeepsTemporary(a, newComposite) ==
    LET b == BaseSetComposite(a, newComposite)
    IN  IF b.mTemporary.present
        THEN SetEmbeddedState(b, b.mTemporary.value)
        ELSE SetEmbeddedState(b, DefaultValue)

\* EmbeddedStateAspect::setComposite
setComposite(a, newComposite) ==
    LET b == BaseSetComposite(a, newComposite)
        c == IF b.mTemporary.present
             THEN SetEmbeddedState(b, b.mTemporary.value)
             ELSE SetEmbeddedState(b, DefaultValue)
    IN  [c EXCEPT !.mTemporary = NullTemporary]

\* A loseComposite that does not save the embedded state.
loseComposite_NoSave(a, oldComposite) == BaseLoseComposite(a, oldComposite)

\* EmbeddedStateAspect::loseComposite
loseComposite(a, oldComposite) ==
    LET b == [a EXCEPT !.mTemporary = make_unique(GetEmbeddedState(a))]
    IN  BaseLoseComposite(b, oldComposite)

\* DefaultSetEmbeddedProperties / DefaultGetEmbeddedProperties
SetEmbeddedProperties(a, properties) ==
    [a EXCEPT !.embedded = setAspectState(a.embedded, getComposite(a), properties)]
GetEmbeddedProperties(a) == getAspectState(a.embedded, getComposite(a))

\* EmbeddedPropertiesAspect::setProperties
setProperties(a, properties) ==
    IF getComposite(a) # NullComposite
    THEN SetEmbeddedProperties(a, properties)
    ELSE [a EXCEPT !.mTemporary = make_unique(properties)]

\* EmbeddedPropertiesAspect::getProperties
getProperties(a) ==
    IF getComposite(a) # NullComposite
    THEN [aspect |-> a, ret |-> GetEmbeddedProperties(a)]
    ELSE LET b == IF ~a.mTemporary.present
                  THEN [a EXCEPT !.mTemporary = make_unique(DefaultValue)]
                  ELSE a
         IN  [aspect |-> b, ret |-> b.mTemporary.value]

\* EmbeddedPropertiesAspect::setComposite
PropertiesSetComposite(a, newComposite) ==
    LET b == BaseSetComposite(a, newComposite)
        c == IF b.mTemporary.present
             THEN SetEmbeddedProperties(b, b.mTemporary.value)
             ELSE SetEmbeddedProperties(b, DefaultValue)
    IN  [c EXCEPT !.mTemporary = NullTemporary]

\* EmbeddedPropertiesAspect::loseComposite
PropertiesLoseComposite(a, oldComposite) ==
    LET b == [a EXCEPT !.mTemporary = make_unique(GetEmbeddedProperties(a))]
    IN  BaseLoseComposite(b, oldComposite)

\* What getState() / getProperties() does on the aspect, by its kind.
Get(a) == IF a.kind = "State" THEN getState(a) ELSE getProperties(a)

\* History: the last two operations, each with its argument or the value it
\* returned.
Note(a, op, val) ==
    [a EXCEPT !.ops = IF Len(@) < 2
                      THEN Append(@, [op |-> op, val |-> val])
                      ELSE <<@[2], [op |-> op, val |-> val]>>]

\* setState(value) / setProperties(value)
AspectSet(value) ==
    /\ aspect.kind # "none"
    /\ LET a == IF aspect.kind = "State" THEN setState(aspect, value)
                ELSE setProperties(aspect, value)
       IN  aspect' = Note([a EXCEPT !.carried = NullTemporary], "setState", value)
    /\ UNCHANGED <<cacheVars, objVars, detVars, post>>

\* getState() / getProperties()
AspectGet ==
    /\ aspect.kind # "none"
    /\ LET r == Get(aspect)
       IN  aspect' = Note(r.aspect, "getState", r.ret)
    /\ UNCHANGED <<cacheVars, objVars, detVars, post>>

\* A composite takes the aspect in: setComposite(newComposite).
AspectSetComposite(newComposite) ==
    /\ aspect.kind # "none"
    /\ getComposite(aspect) = NullComposite
    /\ LET a == IF aspect.kind = "State" THEN setComposite(aspect, newComposite)
                ELSE PropertiesSetComposite(aspect, newComposite)
       IN  aspect' = Note(a, "setComposite", newComposite)
    /\ UNCHANGED <<cacheVars, objVars, detVars, post>>

\* The composite gives the aspect up: loseComposite(oldComposite).  carried
\* remembers the value embedded in the composite at this moment.
AspectLoseComposite ==
    /\ aspect.kind # "none"
    /\ getComposite(aspect) # NullComposite
    /\ LET oldComposite == getComposite(aspect)
           a == IF aspect.kind = "State" THEN loseComposite(aspect, oldComposite)
                ELSE PropertiesLoseComposite(aspect, oldComposite)
       IN  aspect' = Note([a EXCEPT !.carried =
                                  make_unique(aspect.embedded[oldComposite])],
                          "loseComposite", oldComposite)
    /\ UNCHANGED <<cacheVars, objVars, detVars, post>>

NextAspect ==
    \/ \E value \in AspectValues : AspectSet(value)
    \/ AspectGet
    \/ \E newComposite \in Composites : AspectSetComposite(newComposite)
    \/ AspectLoseComposite

\* The aspect has been constructed with some value, for no composite yet;
\* the composites hold any values.
InitAspect ==
    /\ mShapeMap = << >>
    /\ mFCLCollisionObjectMap = << >>
    /\ objects = << >>
    /\ frameShape = [f \in Frames |-> 1]
    /\ assertsEnabled = TRUE
    /\ fault = "none"
    /\ ret = NullGeom
    /\ lastOp = NoOp
    /\ claimed = [s \in Shapes |-> 0]
    /\ reclaimed = [s \in Shapes |-> 0]
    /\ result = << >>
    /\ pc = "idle"
    /\ call = NoCall
    /\ collData = NoCollData
    /\ offered = {}
    /\ detRet = NoReturn
    /\ callTrace = << >>
    /\ produced = << >>
    /\ lastCb = NoCb
    /\ entryDirty = FALSE
    /\ prevDone = FALSE
    /\ rawTotal = 0
    /\ post = NoPost
    /\ \E kind \in {"State", "Properties"}, state \in AspectValues,
          embedded \in [Composites -> AspectValues] :
            aspect = [kind |-> kind, mComposite |-> NullComposite,
                      mTemporary |-> make_unique(state), embedded |-> embedded,
                      ops |-> << >>, carried |-> NullTemporary]

SpecAspect == InitAspect /\ [][NextAspect]_vars

(***************************************************************************)
(* C25: setState(s) followed by getState() returns s, whether the aspect   *)
(* is attached to a composite or not; likewise for setProperties and       *)
(* getProperties.  Attached, the value is in the composite; detached, in   *)
(* the temporary store.                                                    *)
(***************************************************************************)
C25_SetGetRoundTrip ==
    (/\ aspect.kind # "none"
     /\ Len(aspect.ops) = 2
     /\ aspect.ops[1].op = "setState"
     /\ aspect.ops[2].op = "getState") =>
        /\ aspect.ops[2].val = aspect.ops[1].val
        /\ IF getComposite(aspect) # NullComposite
           THEN aspect.embedded[getComposite(aspect)] = aspect.ops[1].val
           ELSE aspect.mTemporary = make_unique(aspect.ops[1].val)

C25_Witness ==
    /\ aspect.kind = "State"
    /\ getComposite(aspect) = 2
    /\ aspect.ops = <<[op |-> "setState", val |-> 2], [op |-> "getState", val |-> 2]>>
    /\ aspect.embedded[1] = 1

(***************************************************************************)
(* C26: loseComposite(old) followed by setComposite(new) leaves in the new *)
(* composite the value that was embedded in the old one at the moment of   *)
(* loseComposite, and getState() returns that value before, between and    *)
(* after the two steps, as long as no setState comes in between; likewise  *)
(* for properties.                                                         *)
(***************************************************************************)
C26_MovePreservesState ==
    [][(aspect'.kind # "none" /\ aspect'.carried.present) =>
          /\ Get(aspect').ret = aspect'.carried.value
          /\ getComposite(aspect') # NullComposite =>
                aspect'.embedded[getComposite(aspect')] = aspect'.carried.value
          /\ getComposite(aspect') = NullComposite =>
                Get(aspect).ret = aspect'.carried.value]_vars

C26_Witness ==
    /\ aspect.kind = "Properties"
    /\ aspect.ops = <<[op |-> "loseComposite", val |-> 1],
                      [op |-> "setComposite", val |-> 2]>>
    /\ aspect.carried = make_unique(2)
    /\ aspect.embedded[2] = 2

(***************************************************************************)
(* C27: while the aspect is attached to a composite its temporary store is *)
(* empty, whatever setState and getState have done since setComposite;     *)
(* while it is detached getState() returns a value and leaves the store    *)
(* holding it, and on an empty store it would return the default value.    *)
(***************************************************************************)
C27_TemporaryEmptyWhileAttached ==
    aspect.kind # "none" =>
        /\ getComposite(aspect) # NullComposite => ~aspect.mTemporary.present
        /\ getComposite(aspect) = NullComposite =>
              /\ Get(aspect).ret \in AspectValues
              /\ Get(aspect).aspect.mTemporary = make_unique(Get(aspect).ret)
        /\ LET empty == [aspect EXCEPT !.mComposite = NullComposite,
                                       !.mTemporary = NullTemporary]
           IN  /\ Get(empty).ret = DefaultValue
               /\ Get(empty).aspect.mTemporary = make_unique(DefaultValue)

C27_Witness ==
    /\ aspect.kind = "State"
    /\ getComposite(aspect) = 1
    /\ aspect.ops = <<[op |-> "setState", val |-> 1], [op |-> "getState", val |-> 1]>>
    /\ ~aspect.mTemporary.present

(***************************************************************************)
(* SpecPostDetect: a postProcess call on its own, or a detect call.        *)
(***************************************************************************)
InitPostDetect == InitPost \/ InitDetect

NextPostDetect ==
    \/ post.stage # "none" /\ NextPost
    \/ post.stage = "none" /\ NextDetect

SpecPostDetect == InitPostDetect /\ [][NextPostDetect]_vars

(***************************************************************************)
(* C28: of a non-empty raw contact set postProcess appends at least one    *)
(* contact, the highest-indexed one, which no rule marks; and detect       *)
(* returns true exactly when the narrow phase reported a contact for some  *)
(* pair it was invoked on in the call.                                     *)
(***************************************************************************)
C28_LastContactKept ==
    /\ (post.stage = "out" /\ post.fclResult # << >>) =>
          /\ ~MarkForDeletion(post.fclResult)[Len(post.fclResult)]
          /\ Len(post.fclResult) \in PostRetained
          /\ Len(result) > Len(post.before)
    /\ (post.stage = "none" /\ call.form # 0 /\ detRet.returned) =>
          detRet.value = (rawTotal > 0)

C28_Witness ==
    /\ post.stage = "out"
    /\ Len(post.fclResult) = 4
    /\ PostRetained = {4}
    /\ post.before # << >>

(***************************************************************************)
(* C29: no two contacts postProcess retains of one pair lie within the     *)
(* duplicate epsilon of each other: a contact with any later contact       *)
(* within the epsilon of it, marked or not, is not retained.               *)
(***************************************************************************)
C29_NoRepeatedRetained ==
    post.stage = "out" =>
        LET raw == post.fclResult
        IN  /\ \A i, j \in PostRetained :
                  i # j => ~IsRepeated(raw[i].pos, raw[j].pos)
            /\ \A i \in 1..Len(raw) :
                  (\E j \in (i + 1)..Len(raw) : IsRepeated(raw[i].pos, raw[j].pos))
                      => i \notin PostRetained

C29_Witness ==
    /\ post.stage = "out"
    /\ Len(post.fclResult) = 4
    /\ IsRepeated(post.fclResult[1].pos, post.fclResult[2].pos)
    /\ IsRepeated(post.fclResult[2].pos, post.fclResult[3].pos)
    /\ ~IsRepeated(post.fclResult[1].pos, post.fclResult[3].pos)
    /\ PostRetained = {3, 4}

(***************************************************************************)
(* C30: every raw contact postProcess removes is within the duplicate      *)
(* epsilon of a retained contact or colinear with two retained contacts.   *)
(* (The statement as claimed; postProcess does not satisfy it.)            *)
(***************************************************************************)
C30_NeverOverPrunes ==
    post.stage = "out" =>
        LET raw == post.fclResult
        IN  \A i \in (1..Len(raw)) \ PostRetained :
                \/ \E j \in PostRetained : IsRepeated(raw[i].pos, raw[j].pos)
                \/ \E j, k \in PostRetained :
                      j # k /\ IsColinear(raw[i].pos, raw[j].pos, raw[k].pos)

(***************************************************************************)
(* C30, amended: every raw contact postProcess removes is within the       *)
(* duplicate epsilon of a later raw contact, or colinear with two later    *)
(* raw contacts that the duplicate pass left unmarked; these later         *)
(* contacts need not be retained themselves.                               *)
(***************************************************************************)
C30_RemovedForCause ==
    post.stage = "out" =>
        LET raw == post.fclResult
            later(i) == (i + 1)..Len(raw)
        IN  \A i \in (1..Len(raw)) \ PostRetained :
                \/ \E j \in later(i) : IsRepeated(raw[i].pos, raw[j].pos)
                \/ \E j \in later(i) : \E k \in later(j) :
                      /\ ~MarkRepeated(raw)[j]
                      /\ ~MarkRepeated(raw)[k]
                      /\ IsColinear(raw[i].pos, raw[j].pos, raw[k].pos)

C30_Witness ==
    /\ post.stage = "out"
    /\ Len(post.fclResult) = 3
    /\ PostRetained = {3}
    /\ ~IsRepeated(post.fclResult[1].pos, post.fclResult[3].pos)
    /\ IsRepeated(post.fclResult[1].pos, post.fclResult[2].pos)

\* The sum of the reference counts of the entries of a cache.
RECURSIVE RefCountSum(_)
RefCountSum(map) ==
    IF DOMAIN map = {}
    THEN 0
    ELSE LET s == CHOOSE t \in DOMAIN map : TRUE
         IN  map[s].count + RefCountSum(RemoveKey(map, s))

\* The native handles a collision object can have, and one no object has.
Handles == {getFCLCollisionObject(o) : o \in ObjectIds} \cup {getFCLCollisionObject(NullObject)}

C31_Witness ==
    /\ lastOp.op = "destroy"
    /\ objects = << >>
    /\ ret.id # 0
    /\ DestructorAssertionsHold
    /\ \E o \in ObjectIds : o > 1 /\ findCollisionObject(getFCLCollisionObject(o)) = NullObject

(***************************************************************************)
(* C33: the first claim of a shape of unsupported kind calls the builder   *)
(* and inserts an entry with the null geometry and count 1; every claim of *)
(* the shape while it has an entry returns the cached null, adds 1 to the  *)
(* count and does not call the builder; and the entry leaves the cache     *)
(* only in a reclaim of the shape that makes its reclaims as many as its   *)
(* claims.                                                                 *)
(***************************************************************************)
C33_UnsupportedShapeCached ==
    [][ \A s \in Shapes :
          getShapeType(s) \notin SupportedShapeTypes =>
            /\ (lastOp'.op = "claim" /\ lastOp'.shape = s) =>
                  /\ fault' = "none"
                  /\ ret' = NullGeom
                  /\ s \in DOMAIN mShapeMap'
                  /\ mShapeMap'[s].geom = NullGeom
                  /\ lastOp'.built = (s \notin DOMAIN mShapeMap)
                  /\ mShapeMap'[s].count =
                        IF s \in DOMAIN mShapeMap THEN mShapeMap[s].count + 1 ELSE 1
            /\ (s \in DOMAIN mShapeMap /\ s \notin DOMAIN mShapeMap') =>
                  /\ lastOp'.op = "reclaim"
                  /\ lastOp'.shape = s
                  /\ reclaimed'[s] = claimed'[s] ]_vars

C33_Witness ==
    /\ fault = "none"
    /\ lastOp.op = "claim"
    /\ getShapeType(lastOp.shape) \notin SupportedShapeTypes
    /\ ~lastOp.built
    /\ ret = NullGeom
    /\ mShapeMap[lastOp.shape] = [geom |-> NullGeom, count |-> 2]
    /\ reclaimed[lastOp.shape] = 1

(***************************************************************************)
(* C32: the done flag belongs to one detect call.  Every call that reaches *)
(* the broad phase starts with done unset and with no candidate pair       *)
(* offered yet, whatever the call before it did; the first pair the broad  *)
(* phase offers is therefore processed, not skipped: the filter is asked   *)
(* or the narrow phase invoked.                                            *)
(***************************************************************************)
C32_DoneIsPerCall ==
    /\ (pc = "enum" /\ offered = {}) =>
          /\ ~collData.done
          /\ result = << >>
          /\ lastCb = NoCb
    /\ (call.form # 0 /\ Cardinality(offered) = 1) =>
          /\ ~lastCb.doneBefore
          /\ lastCb.asked \/ lastCb.narrow

C32_Witness ==
    /\ prevDone
    /\ pc = "enum"
    /\ Cardinality(offered) = 1
    /\ ~lastCb.doneBefore
    /\ lastCb.narrow
    /\ ~collData.done
====
